---- MODULE Spec2Model ----
(***************************************************************************)
(* Model of tools/wwv_analyze.py (Phoenix SDR WWV log analysis).           *)
(*                                                                         *)
(* Three parts of print_report are modelled, each with its own             *)
(* specification over the same variables:                                  *)
(*   SpecMatcher  the correlation loop (lines 252-298), one action per     *)
(*                iteration of the outer loop;                             *)
(*   SpecLocator  the file selection (lines 185-215);                      *)
(*   SpecReport / SpecFrame  the analyzers and the section printing        *)
(*                (lines 31-179, 217-318).                                 *)
(* Timestamps and the other numeric fields are integers (the code uses     *)
(* floats); text fields that the code inspects character by character      *)
(* (identifiers, numeric fields, file names) are sequences of              *)
(* one-character strings.                                                  *)
(***************************************************************************)
EXTENDS Integers, Sequences, FiniteSets, TLC

\* ---------------------------------------------------------------- bounds
MaxTicks == 3
MaxMarkers == 3
MaxFiles == 3
MaxSyncRows == 2
MaxTickRows == 2
MaxMarkerRows == 1
MaxSubcarrierRows == 1
MaxChannelRows == 1
FrameRows == 1
FrameTickRows == 2

\* ------------------------------------------------------ program constants
\* best_delta = 1500: the correlation window in ms
Window == 1500
display_limit == 20

\* best_match = None (line 268); a found match is a non-empty tuple
NoMatch == <<>>

VARIABLES
    \* --- correlation loop of print_report (lines 252-298)
    cpc,              \* position: "idle", "start", "loop", "done"
    ticks_markers,    \* ticks['markers']   : sequence of <<name, timestamp, duration>>
    markers_markers,  \* markers['markers'] : sequence of <<name, timestamp, duration>>
    tick_list,
    marker_list,
    t_pos,            \* number of tick_list entries the outer loop has consumed
    used_markers,     \* set of positions in marker_list (1-based here, 0-based in the code)
    correlated,
    tick_only,
    marker_only,
    displayed,
    pairs,            \* the matches in the order they are made: <<tick position, marker position, delta>>
    \* --- file selection of print_report (lines 185-215)
    listing,          \* os.listdir(base_path) with each entry's mtime: sequence of [name, mtime]
    l_pos,            \* number of listing entries the first loop has consumed
    candidates,       \* category -> sequence of <<mtime, full_path>>
    files,            \* category -> full_path, or NoPath for None
    k_pos,            \* number of categories the second loop has consumed
    \* --- analyzers and sections of print_report (lines 31-179, 217-318)
    logs,             \* category -> [exists, rows]: the content of the selected file
    rpc,              \* position: "idle", "sync", "ticks", "markers", "correlation",
                      \*           "channel", "subcarrier", "footer", "done", "aborted"
    out,              \* what was printed: sequence of [name, lines], one per section
    error,            \* "" or the exception that ended the run
    sync,             \* the locals holding the analyzer results
    ticks,
    markers

corrVars == <<cpc, ticks_markers, markers_markers, tick_list, marker_list, t_pos,
              used_markers, correlated, tick_only, marker_only, displayed, pairs>>

locVars == <<listing, l_pos, candidates, files, k_pos>>

repVars == <<logs, rpc, out, error, sync, ticks, markers>>

vars == <<corrVars, locVars, repVars>>

\* ------------------------------------------------------------- helpers
Abs(x) == IF x < 0 THEN -x ELSE x

Range(s) == {s[i] : i \in 1..Len(s)}

SeqsUpTo(S, n) == UNION {[1..k -> S] : k \in 0..n}

\* sorted(xs, key=lambda x: x[1]): stable, ascending by timestamp (element 2 here).
\* e goes after every element whose key is <= its own.
RECURSIVE InsertByTime(_, _)
InsertByTime(s, e) ==
    IF s = <<>> THEN <<e>>
    ELSE IF s[Len(s)][2] <= e[2] THEN Append(s, e)
    ELSE Append(InsertByTime(SubSeq(s, 1, Len(s) - 1), e), s[Len(s)])

RECURSIVE SortFrom(_, _, _)
SortFrom(xs, k, acc) ==
    IF k > Len(xs) THEN acc ELSE SortFrom(xs, k + 1, InsertByTime(acc, xs[k]))

SortByTime(xs) == SortFrom(xs, 1, <<>>)

\* The inner loop (lines 268-276) from marker position i on.
\* best_match is NoMatch or <<i, m_name, m_time, m_dur>>.
ScanAcceptsEqual(t_time, ml, used, i, best_match, best_delta) ==
    LET RECURSIVE Go(_, _, _)
        Go(j, bm, bd) ==
            IF j > Len(ml) THEN [best_match |-> bm, best_delta |-> bd]
            ELSE IF j \in used THEN Go(j + 1, bm, bd)
            ELSE LET delta == Abs(t_time - ml[j][2])
                 IN  IF delta <= bd
                     THEN Go(j + 1, <<j, ml[j][1], ml[j][2], ml[j][3]>>, delta)
                     ELSE Go(j + 1, bm, bd)
    IN  Go(i, best_match, best_delta)

ScanIgnoresUsed(t_time, ml, used, i, best_match, best_delta) ==
    LET RECURSIVE Go(_, _, _)
        Go(j, bm, bd) ==
            IF j > Len(ml) THEN [best_match |-> bm, best_delta |-> bd]
            ELSE LET delta == Abs(t_time - ml[j][2])
                 IN  IF delta < bd
                     THEN Go(j + 1, <<j, ml[j][1], ml[j][2], ml[j][3]>>, delta)
                     ELSE Go(j + 1, bm, bd)
    IN  Go(i, best_match, best_delta)

ScanTiesToLast(t_time, ml, used, i, best_match, best_delta) ==
    LET RECURSIVE Go(_, _, _)
        Go(j, bm, bd) ==
            IF j > Len(ml) THEN [best_match |-> bm, best_delta |-> bd]
            ELSE IF j \in used THEN Go(j + 1, bm, bd)
            ELSE LET delta == Abs(t_time - ml[j][2])
                 IN  IF delta < bd \/ (delta = bd /\ bm # NoMatch)
                     THEN Go(j + 1, <<j, ml[j][1], ml[j][2], ml[j][3]>>, delta)
                     ELSE Go(j + 1, bm, bd)
    IN  Go(i, best_match, best_delta)

ScanBreaksOnUsed(t_time, ml, used, i, best_match, best_delta) ==
    LET RECURSIVE Go(_, _, _)
        Go(j, bm, bd) ==
            IF j > Len(ml) THEN [best_match |-> bm, best_delta |-> bd]
            ELSE IF j \in used THEN [best_match |-> bm, best_delta |-> bd]
            ELSE LET delta == Abs(t_time - ml[j][2])
                 IN  IF delta < bd
                     THEN Go(j + 1, <<j, ml[j][1], ml[j][2], ml[j][3]>>, delta)
                     ELSE Go(j + 1, bm, bd)
    IN  Go(i, best_match, best_delta)

ScanMarkers(t_time, ml, used, i, best_match, best_delta) ==
    LET RECURSIVE Go(_, _, _)
        Go(j, bm, bd) ==
            IF j > Len(ml) THEN [best_match |-> bm, best_delta |-> bd]
            ELSE IF j \in used THEN Go(j + 1, bm, bd)
            ELSE LET delta == Abs(t_time - ml[j][2])
                 IN  IF delta < bd
                     THEN Go(j + 1, <<j, ml[j][1], ml[j][2], ml[j][3]>>, delta)
                     ELSE Go(j + 1, bm, bd)
    IN  Go(i, best_match, best_delta)

\* The counters of the correlation block as one record.
CorrStart ==
    [used_markers |-> {}, correlated |-> 0, tick_only |-> 0, displayed |-> 0,
     pairs |-> <<>>]

\* One iteration of the outer loop (lines 266-288) for tick_list[k].
CorrBody(tl, ml, c, k) ==
    LET r == ScanMarkers(tl[k][2], ml, c.used_markers, 1, NoMatch, Window)
        shown == IF c.displayed < display_limit THEN c.displayed + 1 ELSE c.displayed
    IN  IF r.best_match # NoMatch
        THEN [c EXCEPT !.used_markers = @ \cup {r.best_match[1]},
                       !.correlated = @ + 1,
                       !.displayed = shown,
                       !.pairs = Append(@, <<k, r.best_match[1], r.best_delta>>)]
        ELSE [c EXCEPT !.tick_only = @ + 1,
                       !.displayed = shown]

RECURSIVE CorrLoop(_, _, _, _)
CorrLoop(tl, ml, c, k) ==
    IF k > Len(tl) THEN c ELSE CorrLoop(tl, ml, CorrBody(tl, ml, c, k), k + 1)

\* line 294
MarkerOnlyVsTicks(ml, used, tl) == Len(ml) - Len(tl)

MarkerOnlyCount(ml, used, tl) == Len(ml) - Cardinality(used)

\* ------------------------------------------------- inputs of the matcher
TimeSet == {0, 800, 1500, 2200}

DigitChars == <<"0", "1", "2", "3", "4", "5", "6", "7", "8", "9">>

\* the k-th minute-marker row of a log is named "M<k>"
MName(k) == <<"M", DigitChars[k + 1]>>

Entries(times) == [k \in 1..Len(times) |-> <<MName(k), times[k], 800>>]

TickInputs == {Entries(s) : s \in SeqsUpTo(TimeSet, MaxTicks) \ {<<>>}}
MarkerInputs == {Entries(s) : s \in SeqsUpTo(TimeSet, MaxMarkers) \ {<<>>}}

\* ---------------------------------------------------- correlation actions
CorrCur ==
    [used_markers |-> used_markers, correlated |-> correlated, tick_only |-> tick_only,
     displayed |-> displayed, pairs |-> pairs]

SetCorr(c) ==
    /\ used_markers' = c.used_markers
    /\ correlated' = c.correlated
    /\ tick_only' = c.tick_only
    /\ displayed' = c.displayed
    /\ pairs' = c.pairs

\* lines 252-264: the guard, the two sorts and the counters
CorrelationStart ==
    /\ cpc = "start"
    /\ ticks_markers # <<>> /\ markers_markers # <<>>
    /\ tick_list' = SortByTime(ticks_markers)
    /\ marker_list' = SortByTime(markers_markers)
    /\ SetCorr(CorrStart)
    /\ t_pos' = 0
    /\ marker_only' = 0
    /\ cpc' = "loop"
    /\ UNCHANGED <<ticks_markers, markers_markers, locVars, repVars>>

\* lines 266-288: one tick-marker
MatchTick ==
    /\ cpc = "loop"
    /\ t_pos < Len(tick_list)
    /\ SetCorr(CorrBody(tick_list, marker_list, CorrCur, t_pos + 1))
    /\ t_pos' = t_pos + 1
    /\ UNCHANGED <<cpc, ticks_markers, markers_markers, tick_list, marker_list, marker_only,
                   locVars, repVars>>

\* lines 290-296: the loop is over, count the unmatched markers
CorrelationSummary ==
    /\ cpc = "loop"
    /\ t_pos = Len(tick_list)
    /\ marker_only' = MarkerOnlyCount(marker_list, used_markers, tick_list)
    /\ cpc' = "done"
    /\ UNCHANGED <<ticks_markers, markers_markers, tick_list, marker_list, t_pos,
                   used_markers, correlated, tick_only, displayed, pairs, locVars, repVars>>

CorrIdle ==
    /\ cpc = "idle"
    /\ ticks_markers = <<>> /\ markers_markers = <<>>
    /\ tick_list = <<>> /\ marker_list = <<>>
    /\ t_pos = 0 /\ used_markers = {} /\ correlated = 0 /\ tick_only = 0
    /\ marker_only = 0 /\ displayed = 0 /\ pairs = <<>>



\* ======================================================================
\* Log Locator: print_report lines 185-215
\* ======================================================================
\* the keys of `files`, in insertion order (lines 185-191)
Keys == <<"sync", "ticks", "markers", "subcarrier", "channel">>

\* files[key] = None
NoPath == <<>>

LowerChars == <<"a", "b", "c", "d", "e", "f", "g", "h", "i", "j", "k", "l", "m",
                "n", "o", "p", "q", "r", "s", "t", "u", "v", "w", "x", "y", "z">>

\* code point of a character (Python compares str by code point)
Ord(c) ==
    IF \E i \in 1..Len(LowerChars) : LowerChars[i] = c
    THEN 96 + (CHOOSE i \in 1..Len(LowerChars) : LowerChars[i] = c)
    ELSE IF \E i \in 1..Len(DigitChars) : DigitChars[i] = c
    THEN 47 + (CHOOSE i \in 1..Len(DigitChars) : DigitChars[i] = c)
    ELSE CASE c = "." -> 46
           [] c = "/" -> 47
           [] c = "_" -> 95

\* s < t for str
RECURSIVE StrLess(_, _)
StrLess(s, t) ==
    IF t = <<>> THEN FALSE
    ELSE IF s = <<>> THEN TRUE
    ELSE IF Head(s) = Head(t) THEN StrLess(Tail(s), Tail(t))
    ELSE Ord(Head(s)) < Ord(Head(t))

\* sub in f
Contains(f, sub) ==
    \E i \in 1..(Len(f) - Len(sub) + 1) : \A k \in 1..Len(sub) : f[i + k - 1] = sub[k]

\* f.endswith(suffix)
EndsWith(f, suffix) ==
    Len(f) >= Len(suffix) /\ SubSeq(f, Len(f) - Len(suffix) + 1, Len(f)) = suffix

\* f.startswith(prefix)
StartsWith(f, prefix) ==
    Len(f) >= Len(prefix) /\ SubSeq(f, 1, Len(prefix)) = prefix

KeyChars(key) ==
    CASE key = "sync" -> <<"s", "y", "n", "c">>
      [] key = "ticks" -> <<"t", "i", "c", "k", "s">>
      [] key = "markers" -> <<"m", "a", "r", "k", "e", "r", "s">>
      [] key = "subcarrier" -> <<"s", "u", "b", "c", "a", "r", "r", "i", "e", "r">>
      [] key = "channel" -> <<"c", "h", "a", "n", "n", "e", "l">>

DotCsv == <<".", "c", "s", "v">>

\* os.path.join(base_path, f) with the default base_path '.'
FullPath(f) == <<".", "/">> \o f

\* lines 195-209: the category a listing entry is appended to, "" for none
Classify(f) ==
    IF ~EndsWith(f, DotCsv) THEN ""
    ELSE IF Contains(f, KeyChars("sync")) THEN "sync"
    ELSE IF Contains(f, KeyChars("ticks")) THEN "ticks"
    ELSE IF Contains(f, KeyChars("markers")) THEN "markers"
    ELSE IF Contains(f, KeyChars("subcarrier")) THEN "subcarrier"
    ELSE IF Contains(f, KeyChars("channel")) THEN "channel"
    ELSE ""

\* (mtime, path) tuples compare by mtime, then by path
TupleLess(a, b) == a[1] < b[1] \/ (a[1] = b[1] /\ StrLess(a[2], b[2]))

\* insertion of e into a descending list, after the elements that are >= e
RECURSIVE InsertDesc(_, _)
InsertDesc(s, e) ==
    IF s = <<>> THEN <<e>>
    ELSE IF ~TupleLess(s[Len(s)], e) THEN Append(s, e)
    ELSE Append(InsertDesc(SubSeq(s, 1, Len(s) - 1), e), s[Len(s)])

RECURSIVE SortDescFrom(_, _, _)
SortDescFrom(xs, k, acc) ==
    IF k > Len(xs) THEN acc ELSE SortDescFrom(xs, k + 1, InsertDesc(acc, xs[k]))

Reverse(s) == [i \in 1..Len(s) |-> s[Len(s) + 1 - i]]

SortAscending(xs) == Reverse(SortDescFrom(xs, 1, <<>>))

\* candidates[key].sort(reverse=True), line 214
SortReverse(xs) == SortDescFrom(xs, 1, <<>>)

\* the file names of the modelled directories
FileNames ==
    { <<"s", "y", "n", "c", "_", "l", "o", "g", ".", "c", "s", "v">>,
      <<"s", "y", "n", "c", "_", "l", "o", "g", "_", "v", "2", ".", "c", "s", "v">>,
      <<"t", "i", "c", "k", "s", "_", "s", "y", "n", "c", ".", "c", "s", "v">>,
      <<"t", "i", "c", "k", "s", ".", "c", "s", "v">>,
      <<"c", "h", "a", "n", "n", "e", "l", "_", "s", "u", "b", "c", "a", "r", "r", "i", "e", "r",
        ".", "c", "s", "v">>,
      <<"s", "y", "n", "c", ".", "t", "x", "t">>,
      <<"n", "o", "t", "e", "s", ".", "c", "s", "v">> }

\* modification times; two files may share one
Mtimes == {1, 2}

\* listings: no name twice, any order, any mtimes
Listings ==
    {l \in SeqsUpTo([name : FileNames, mtime : Mtimes], MaxFiles) :
        \A i, j \in 1..Len(l) : i # j => l[i].name # l[j].name}

\* lines 194-209, one entry of os.listdir
ListFile ==
    /\ l_pos < Len(listing)
    /\ LET f == listing[l_pos + 1].name
           full_path == FullPath(f)
           mtime == listing[l_pos + 1].mtime
           key == Classify(f)
       IN  candidates' = IF key = "" THEN candidates
                         ELSE [candidates EXCEPT ![key] = Append(@, <<mtime, full_path>>)]
    /\ l_pos' = l_pos + 1
    /\ UNCHANGED <<listing, files, k_pos, corrVars, repVars>>

\* lines 212-215, one key of `files`
PickKey ==
    /\ l_pos = Len(listing)
    /\ k_pos < Len(Keys)
    /\ LET key == Keys[k_pos + 1]
       IN  IF candidates[key] # <<>>
           THEN LET sorted == SortReverse(candidates[key])
                IN  /\ candidates' = [candidates EXCEPT ![key] = sorted]
                    /\ files' = [files EXCEPT ![key] = sorted[1][2]]
           ELSE UNCHANGED <<candidates, files>>
    /\ k_pos' = k_pos + 1
    /\ UNCHANGED <<listing, l_pos, corrVars, repVars>>

KeySet == Range(Keys)

LocIdle ==
    /\ listing = <<>> /\ l_pos = 0 /\ k_pos = Len(Keys)
    /\ candidates = [key \in KeySet |-> <<>>]
    /\ files = [key \in KeySet |-> NoPath]

\* ======================================================================
\* Category analyzers (lines 31-179)
\* ======================================================================
\* The header comments (parse_header, the 'info' entry of each result) are
\* not modelled: a log is its sequence of data rows as csv.DictReader yields
\* them.  A dict is a record; a value printed with a format is kept
\* unformatted, a quotient as the pair <<numerator, denominator>>.

\* the result None of an analyzer; every dict an analyzer returns has keys
None == [is_none |-> TRUE]
Truthy(d) == "is_none" \notin DOMAIN d

\* how a call ends: a returned value, or an exception raised by float()
Ret(v) == [raised |-> FALSE, value |-> v]
Raise == [raised |-> TRUE, value |-> None]

IsDigit(c) == \E i \in 1..Len(DigitChars) : DigitChars[i] = c
DigitVal(c) == (CHOOSE i \in 1..Len(DigitChars) : DigitChars[i] = c) - 1

RECURSIVE DigitsValue(_)
DigitsValue(s) ==
    IF s = <<>> THEN 0
    ELSE 10 * DigitsValue(SubSeq(s, 1, Len(s) - 1)) + DigitVal(s[Len(s)])

\* float(s) on the texts of the modelled logs: a non-empty run of digits is a
\* number, anything else raises ValueError
ParseFloat(s) ==
    IF s # <<>> /\ \A i \in 1..Len(s) : IsDigit(s[i])
    THEN [ok |-> TRUE, val |-> DigitsValue(s)]
    ELSE [ok |-> FALSE, val |-> 0]

RECURSIVE SeqSum(_)
SeqSum(s) == IF s = <<>> THEN 0 ELSE Head(s) + SeqSum(Tail(s))

SeqMin(s) == CHOOSE x \in Range(s) : \A y \in Range(s) : x <= y
SeqMax(s) == CHOOSE x \in Range(s) : \A y \in Range(s) : x >= y

\* a defaultdict(int) filled by counting the rows' labels, given in row order
CountBy(labels) ==
    [l \in Range(labels) |-> Cardinality({i \in 1..Len(labels) : labels[i] = l})]

MetaChars == <<"M", "E", "T", "A">>
GainChars == <<"G", "A", "I", "N">>

\* analyze_sync, lines 31-63
analyze_sync(file) ==
    IF ~file.exists THEN Ret(None)
    ELSE
    LET rows == file.rows
        states == CountBy([i \in 1..Len(rows) |-> rows[i].state])
    IN  IF rows = <<>>
        THEN Ret([count |-> 0, states |-> <<>>, intervals |-> <<>>])
        ELSE IF \E i \in 1..Len(rows) : ~ParseFloat(rows[i].interval_sec).ok
        THEN Raise
        ELSE IF \E i \in 1..Len(rows) : ~ParseFloat(rows[i].delta_ms).ok
        THEN Raise
        ELSE
        LET all == [i \in 1..Len(rows) |-> ParseFloat(rows[i].interval_sec).val]
            intervals == SelectSeq(all, LAMBDA x : x > 0)
            locked == {i \in 1..Len(rows) : rows[i].state = "LOCKED"}
        IN  Ret([count |-> Len(rows),
                 states |-> states,
                 intervals |-> intervals,
                 \* 0 stands for None
                 first_locked |-> IF locked = {} THEN 0
                                  ELSE CHOOSE i \in locked : \A j \in locked : i <= j,
                 avg_delta_ms |->
                     <<SeqSum([i \in 1..Len(rows) |-> ParseFloat(rows[i].delta_ms).val]),
                       Len(rows)>>,
                 missed |-> Len(SelectSeq(intervals, LAMBDA x : x > 90))])

\* lines 76-80: which list a tick-log row is appended to
IsMarkerRow(row) == StartsWith(row.tick_num, <<"M">>)
IsTickRow(row) == ~IsMarkerRow(row) /\ row.tick_num \notin {MetaChars, GainChars}

\* analyze_ticks, lines 65-103
analyze_ticks(file) ==
    IF ~file.exists THEN Ret(None)
    ELSE
    LET rows == file.rows
        mrows == SelectSeq(rows, IsMarkerRow)
        trows == SelectSeq(rows, IsTickRow)
    IN  IF trows = <<>>
        THEN Ret([tick_count |-> 0, marker_count |-> Len(mrows), markers |-> <<>>])
        ELSE
        LET parsed == SelectSeq(trows, LAMBDA t : ParseFloat(t.interval_ms).ok)
            values == [i \in 1..Len(parsed) |-> ParseFloat(parsed[i].interval_ms).val]
            intervals == SelectSeq(values, LAMBDA x : 500 < x /\ x < 10000)
            good_intervals == SelectSeq(intervals, LAMBDA x : 900 <= x /\ x <= 1100)
        IN  IF \E i \in 1..Len(mrows) :
                   \/ ~ParseFloat(mrows[i].timestamp_ms).ok
                   \/ ~ParseFloat(mrows[i].duration_ms).ok
            THEN Raise
            ELSE Ret([tick_count |-> Len(trows),
                      marker_count |-> Len(mrows),
                      good_interval_pct |->
                          IF intervals # <<>>
                          THEN <<100 * Len(good_intervals), Len(intervals)>> ELSE <<0, 1>>,
                      mean_interval_ms |->
                          IF intervals # <<>>
                          THEN <<SeqSum(intervals), Len(intervals)>> ELSE <<0, 1>>,
                      markers |->
                          [i \in 1..Len(mrows) |->
                              <<mrows[i].tick_num,
                                ParseFloat(mrows[i].timestamp_ms).val,
                                ParseFloat(mrows[i].duration_ms).val>>]])

\* analyze_markers, lines 105-123
analyze_markers(file) ==
    IF ~file.exists THEN Ret(None)
    ELSE
    LET mrows == SelectSeq(file.rows, LAMBDA row : StartsWith(row.marker_num, <<"M">>))
    IN  IF \E i \in 1..Len(mrows) :
               \/ ~ParseFloat(mrows[i].timestamp_ms).ok
               \/ ~ParseFloat(mrows[i].duration_ms).ok
        THEN Raise
        ELSE Ret([count |-> Len(mrows),
                  markers |->
                      [i \in 1..Len(mrows) |->
                          <<mrows[i].marker_num,
                            ParseFloat(mrows[i].timestamp_ms).val,
                            ParseFloat(mrows[i].duration_ms).val>>]])

\* the keys of a dict in insertion order
RECURSIVE FirstSeen(_, _)
FirstSeen(labels, acc) ==
    IF labels = <<>> THEN acc
    ELSE FirstSeen(Tail(labels),
                   IF Head(labels) \in Range(acc) THEN acc ELSE Append(acc, Head(labels)))

\* analyze_subcarrier, lines 125-153
analyze_subcarrier(file) ==
    IF ~file.exists THEN Ret(None)
    ELSE
    LET rows == file.rows
        total == Len(rows)
        matches == Len(SelectSeq(rows, LAMBDA row : row.match = "YES"))
        order == FirstSeen([i \in 1..Len(rows) |-> rows[i].expected], <<>>)
    IN  Ret([total |-> total,
             matches |-> matches,
             match_pct |-> IF total # 0 THEN <<100 * matches, total>> ELSE <<0, 1>>,
             by_expected |->
                 [k \in 1..Len(order) |->
                     [expected |-> order[k],
                      total |-> Len(SelectSeq(rows, LAMBDA row : row.expected = order[k])),
                      match |-> Len(SelectSeq(rows, LAMBDA row :
                                        row.expected = order[k] /\ row.match = "YES"))]]])

\* analyze_channel, lines 155-179: the quality count is incremented before
\* float() is tried, so a row with a bad snr_db still counts in 'quality'
analyze_channel(file) ==
    IF ~file.exists THEN Ret(None)
    ELSE
    LET rows == file.rows
        parsed == SelectSeq(rows, LAMBDA row : ParseFloat(row.snr_db).ok)
        snr_values == [i \in 1..Len(parsed) |-> ParseFloat(parsed[i].snr_db).val]
    IN  Ret([quality |-> CountBy([i \in 1..Len(rows) |-> rows[i].quality]),
             snr_min |-> IF snr_values # <<>> THEN SeqMin(snr_values) ELSE 0,
             snr_max |-> IF snr_values # <<>> THEN SeqMax(snr_values) ELSE 0,
             snr_avg |-> IF snr_values # <<>>
                         THEN <<SeqSum(snr_values), Len(snr_values)>> ELSE <<0, 1>>])

\* ======================================================================
\* Report: print_report lines 217-318
\* ======================================================================
\* The state of a run as one record, so that a whole run is also an operator.
RunStart ==
    [pc |-> "sync", out |-> <<>>, error |-> "", sync |-> None, ticks |-> None,
     markers |-> None]

Section(name, lines) == [name |-> name, lines |-> lines]
Line(label, value) == <<label, value>>

Fail(r, printed, err) == [r EXCEPT !.out = printed, !.pc = "aborted", !.error = err]

\* `analyze_x(files[x]) if files[x] else None`
CallIfSelected(path, result) == IF path # NoPath THEN result ELSE Ret(None)

\* lines 301: the same without the `if files['channel']` guard and with an
\* analyzer that aggregates no rows when there is no file
ChannelResultUnguarded(fs, lg) ==
    analyze_channel([exists |-> TRUE, rows |-> lg.channel.rows])

ChannelResult(fs, lg) == CallIfSelected(fs.channel, analyze_channel(lg.channel))

\* lines 217-234: the banner and the sync section
ReportSyncStep(fs, lg, r) ==
    LET banner == Append(r.out, Section("HEADER", <<>>))
        res == CallIfSelected(fs.sync, analyze_sync(lg.sync))
        s == res.value
        head == <<Line("Confirmed markers", s.count), Line("States", s.states)>>
    IN  IF res.raised THEN Fail(r, banner, "ValueError")
        ELSE IF ~Truthy(s) THEN [r EXCEPT !.out = banner, !.sync = s, !.pc = "ticks"]
        ELSE IF "first_locked" \notin DOMAIN s
        THEN [Fail(r, Append(banner, Section("SYNC", head)), "KeyError") EXCEPT !.sync = s]
        ELSE [r EXCEPT
                !.sync = s,
                !.pc = "ticks",
                !.out = Append(banner, Section("SYNC",
                    head
                    \o (IF s.first_locked # 0
                        THEN <<Line("First LOCKED", s.first_locked)>> ELSE <<>>)
                    \o (IF s.count > 0
                        THEN <<Line("Avg correlation delta", s.avg_delta_ms)>> ELSE <<>>)
                    \o <<Line("Missed markers", s.missed)>>
                    \o (IF s.intervals # <<>>
                        THEN <<Line("Interval range",
                                    <<SeqMin(s.intervals), SeqMax(s.intervals)>>)>>
                        ELSE <<>>)))]

\* lines 236-243: the tick section
ReportTicksStep(fs, lg, r) ==
    LET res == CallIfSelected(fs.ticks, analyze_ticks(lg.ticks))
        t == res.value
        head == <<Line("Ticks detected", t.tick_count), Line("Minute markers", t.marker_count)>>
    IN  IF res.raised THEN Fail(r, r.out, "ValueError")
        ELSE IF ~Truthy(t) THEN [r EXCEPT !.ticks = t, !.pc = "markers"]
        ELSE IF "good_interval_pct" \notin DOMAIN t
        THEN [Fail(r, Append(r.out, Section("TICK", head)), "KeyError") EXCEPT !.ticks = t]
        ELSE [r EXCEPT
                !.ticks = t,
                !.pc = "markers",
                !.out = Append(r.out, Section("TICK",
                    head \o <<Line("Good intervals", t.good_interval_pct),
                              Line("Mean interval", t.mean_interval_ms)>>))]

\* lines 245-249: the marker section
ReportMarkersStep(fs, lg, r) ==
    LET res == CallIfSelected(fs.markers, analyze_markers(lg.markers))
        m == res.value
    IN  IF res.raised THEN Fail(r, r.out, "ValueError")
        ELSE IF ~Truthy(m) THEN [r EXCEPT !.markers = m, !.pc = "correlation"]
        ELSE [r EXCEPT
                !.markers = m,
                !.pc = "correlation",
                !.out = Append(r.out, Section("MARKER",
                                              <<Line("Markers detected", m.count)>>))]

\* line 252
CorrelationGuard(r) ==
    /\ Truthy(r.ticks) /\ Truthy(r.markers)
    /\ r.ticks.markers # <<>> /\ r.markers.markers # <<>>

\* the lines of the loop (282, 287, 291): one per tick-marker up to display_limit
CorrLines(tl, ml, c) ==
    LET n == IF Len(tl) < display_limit THEN Len(tl) ELSE display_limit
        PairOf(k) == CHOOSE a \in 1..Len(c.pairs) : c.pairs[a][1] = k
    IN  [k \in 1..n |->
            IF \E a \in 1..Len(c.pairs) : c.pairs[a][1] = k
            THEN Line("match", <<tl[k][1], ml[c.pairs[PairOf(k)][2]][1], c.pairs[PairOf(k)][3]>>)
            ELSE Line("no marker", <<tl[k][1], tl[k][2]>>)]
        \o (IF c.displayed >= display_limit
            THEN <<Line("more", Len(tl) - display_limit)>> ELSE <<>>)

\* the counters at the end of the loop over the whole tick_list
CorrResult(r) ==
    LET tl == SortByTime(r.ticks.markers)
        ml == SortByTime(r.markers.markers)
    IN  [tick_list |-> tl, marker_list |-> ml, c |-> CorrLoop(tl, ml, CorrStart, 1)]

\* lines 251-298: the correlation section
ReportCorrelationStep(fs, lg, r) ==
    IF ~CorrelationGuard(r) THEN [r EXCEPT !.pc = "channel"]
    ELSE
    LET cr == CorrResult(r)
        m_only == MarkerOnlyCount(cr.marker_list, cr.c.used_markers, cr.tick_list)
    IN  [r EXCEPT
            !.pc = "channel",
            !.out = Append(r.out, Section("CORRELATION",
                CorrLines(cr.tick_list, cr.marker_list, cr.c)
                \o <<Line("Summary", <<cr.c.correlated, cr.c.tick_only, m_only>>)>>
                \o (IF Truthy(r.sync)
                    THEN <<Line("Sync confirmed", r.sync.count)>> ELSE <<>>)))]

\* lines 300-306: the channel section
ReportChannelStep(fs, lg, r) ==
    LET res == ChannelResult(fs, lg)
        ch == res.value
    IN  IF ~Truthy(ch) THEN [r EXCEPT !.pc = "subcarrier"]
        ELSE [r EXCEPT
                !.pc = "subcarrier",
                !.out = Append(r.out, Section("CHANNEL",
                    <<Line("Quality distribution", ch.quality),
                      Line("SNR range", <<ch.snr_min, ch.snr_max>>),
                      Line("SNR average", ch.snr_avg)>>))]

\* lines 308-316: the subcarrier section
ReportSubcarrierStep(fs, lg, r) ==
    LET res == CallIfSelected(fs.subcarrier, analyze_subcarrier(lg.subcarrier))
        sub == res.value
    IN  IF ~Truthy(sub) THEN [r EXCEPT !.pc = "footer"]
        ELSE [r EXCEPT
                !.pc = "footer",
                !.out = Append(r.out, Section("SUBCARRIER",
                    <<Line("Total samples", sub.total), Line("Match rate", sub.match_pct)>>
                    \o [k \in 1..Len(sub.by_expected) |->
                           Line("expected",
                                <<sub.by_expected[k].expected, sub.by_expected[k].match,
                                  sub.by_expected[k].total>>)]))]

\* line 318: the closing separator
ReportFooterStep(fs, lg, r) ==
    [r EXCEPT !.pc = "done", !.out = Append(r.out, Section("END", <<>>))]

StepAt(fs, lg, r) ==
    CASE r.pc = "sync" -> ReportSyncStep(fs, lg, r)
      [] r.pc = "ticks" -> ReportTicksStep(fs, lg, r)
      [] r.pc = "markers" -> ReportMarkersStep(fs, lg, r)
      [] r.pc = "correlation" -> ReportCorrelationStep(fs, lg, r)
      [] r.pc = "channel" -> ReportChannelStep(fs, lg, r)
      [] r.pc = "subcarrier" -> ReportSubcarrierStep(fs, lg, r)
      [] r.pc = "footer" -> ReportFooterStep(fs, lg, r)

\* print_report from the banner to its end or to the exception that ends it
RECURSIVE RunFrom(_, _, _)
RunFrom(fs, lg, r) ==
    IF r.pc \in {"done", "aborted"} THEN r ELSE RunFrom(fs, lg, StepAt(fs, lg, r))

RunCur ==
    [pc |-> rpc, out |-> out, error |-> error, sync |-> sync, ticks |-> ticks,
     markers |-> markers]

SetRun(r) ==
    /\ rpc' = r.pc
    /\ out' = r.out
    /\ error' = r.error
    /\ sync' = r.sync
    /\ ticks' = r.ticks
    /\ markers' = r.markers

ReportSync ==
    /\ rpc = "sync"
    /\ SetRun(ReportSyncStep(files, logs, RunCur))
    /\ UNCHANGED <<logs, corrVars, locVars>>

ReportTicks ==
    /\ rpc = "ticks"
    /\ SetRun(ReportTicksStep(files, logs, RunCur))
    /\ UNCHANGED <<logs, corrVars, locVars>>

ReportMarkers ==
    /\ rpc = "markers"
    /\ SetRun(ReportMarkersStep(files, logs, RunCur))
    /\ UNCHANGED <<logs, corrVars, locVars>>

\* the correlation block run to its end; its locals take their final values
ReportCorrelation ==
    /\ rpc = "correlation"
    /\ SetRun(ReportCorrelationStep(files, logs, RunCur))
    /\ IF CorrelationGuard(RunCur)
       THEN LET cr == CorrResult(RunCur)
            IN  /\ cpc' = "done"
                /\ ticks_markers' = ticks.markers
                /\ markers_markers' = markers.markers
                /\ tick_list' = cr.tick_list
                /\ marker_list' = cr.marker_list
                /\ t_pos' = Len(cr.tick_list)
                /\ SetCorr(cr.c)
                /\ marker_only' = MarkerOnlyCount(cr.marker_list, cr.c.used_markers,
                                                  cr.tick_list)
       ELSE UNCHANGED corrVars
    /\ UNCHANGED <<logs, locVars>>

ReportChannel ==
    /\ rpc = "channel"
    /\ SetRun(ReportChannelStep(files, logs, RunCur))
    /\ UNCHANGED <<logs, corrVars, locVars>>

ReportSubcarrier ==
    /\ rpc = "subcarrier"
    /\ SetRun(ReportSubcarrierStep(files, logs, RunCur))
    /\ UNCHANGED <<logs, corrVars, locVars>>

ReportFooter ==
    /\ rpc = "footer"
    /\ SetRun(ReportFooterStep(files, logs, RunCur))
    /\ UNCHANGED <<logs, corrVars, locVars>>

\* ------------------------------------------------- the modelled log rows
Txt0 == <<"0">>
Txt5 == <<"5">>
Txt7 == <<"7">>
Txt8 == <<"8">>
Txt20 == <<"2", "0">>
Txt95 == <<"9", "5">>
Txt800 == <<"8", "0", "0">>
Txt1000 == <<"1", "0", "0", "0">>
Txt1050 == <<"1", "0", "5", "0">>
Txt2000 == <<"2", "0", "0", "0">>
Txt70000 == <<"7", "0", "0", "0", "0">>
TxtBad == <<"x">>

SyncGood == [state |-> "LOCKED", interval_sec |-> Txt95, delta_ms |-> Txt5]
SyncFirst == [state |-> "SEARCHING", interval_sec |-> Txt0, delta_ms |-> Txt7]
SyncBad == [state |-> "LOCKED", interval_sec |-> TxtBad, delta_ms |-> Txt5]

TickGood ==
    [tick_num |-> Txt7, interval_ms |-> Txt1000, timestamp_ms |-> Txt1000, duration_ms |-> Txt5]
TickBadInterval ==
    [tick_num |-> Txt8, interval_ms |-> TxtBad, timestamp_ms |-> Txt2000, duration_ms |-> Txt5]
TickMinute ==
    [tick_num |-> <<"M", "1">>, interval_ms |-> Txt0, timestamp_ms |-> Txt1000,
     duration_ms |-> Txt800]
TickMinuteBad ==
    [tick_num |-> <<"M", "2">>, interval_ms |-> Txt0, timestamp_ms |-> TxtBad,
     duration_ms |-> Txt800]
TickMeta ==
    [tick_num |-> MetaChars, interval_ms |-> Txt0, timestamp_ms |-> Txt0, duration_ms |-> Txt0]
TickGain ==
    [tick_num |-> GainChars, interval_ms |-> Txt0, timestamp_ms |-> Txt0, duration_ms |-> Txt0]

MarkerGood == [marker_num |-> <<"M", "1">>, timestamp_ms |-> Txt1050, duration_ms |-> Txt800]
MarkerBad == [marker_num |-> <<"M", "2">>, timestamp_ms |-> TxtBad, duration_ms |-> Txt800]
MarkerOther == [marker_num |-> <<"X", "1">>, timestamp_ms |-> Txt70000, duration_ms |-> Txt800]

ChannelGood == [quality |-> "GOOD", snr_db |-> Txt20]
ChannelBad == [quality |-> "POOR", snr_db |-> TxtBad]

SubMatch == [expected |-> "ON", match |-> "YES"]
SubMiss == [expected |-> "OFF", match |-> "NO"]

Absent == [exists |-> FALSE, rows |-> <<>>]

\* a log is absent, or has up to n rows
FilesOver(rows, n) == {Absent} \cup {[exists |-> TRUE, rows |-> s] : s \in SeqsUpTo(rows, n)}

PathOf(key) == FullPath(KeyChars(key) \o DotCsv)

\* the state the locator leaves for a directory holding the existing logs
Located(lg) ==
    /\ files = [key \in KeySet |-> IF lg[key].exists THEN PathOf(key) ELSE NoPath]
    /\ candidates = [key \in KeySet |->
                        IF lg[key].exists THEN <<<<1, PathOf(key)>>>> ELSE <<>>]
    /\ listing = LET present == SelectSeq(Keys, LAMBDA key : lg[key].exists)
                 IN  [i \in 1..Len(present) |->
                        [name |-> KeyChars(present[i]) \o DotCsv, mtime |-> 1]]
    /\ l_pos = Len(listing)
    /\ k_pos = Len(Keys)

RepIdle ==
    /\ logs = [key \in KeySet |-> Absent]
    /\ rpc = "idle" /\ out = <<>> /\ error = ""
    /\ sync = None /\ ticks = None /\ markers = None

RunInit ==
    /\ rpc = "sync" /\ out = <<>> /\ error = ""
    /\ sync = None /\ ticks = None /\ markers = None
    /\ CorrIdle

InitReport ==
    /\ logs \in [sync : FilesOver({SyncGood, SyncFirst, SyncBad}, MaxSyncRows),
                 ticks : FilesOver({TickGood, TickBadInterval, TickMinute, TickMinuteBad,
                                    TickMeta, TickGain}, MaxTickRows),
                 markers : FilesOver({MarkerGood, MarkerBad, MarkerOther}, MaxMarkerRows),
                 subcarrier : FilesOver({SubMatch, SubMiss}, MaxSubcarrierRows),
                 channel : FilesOver({ChannelGood, ChannelBad}, MaxChannelRows)]
    /\ Located(logs)
    /\ RunInit

InitFrame ==
    /\ logs \in [sync : FilesOver({SyncGood, SyncBad}, FrameRows),
                 ticks : FilesOver({TickGood, TickMinute}, FrameTickRows),
                 markers : FilesOver({MarkerGood, MarkerBad}, FrameRows),
                 subcarrier : FilesOver({SubMatch}, FrameRows),
                 channel : FilesOver({ChannelGood}, FrameRows)]
    /\ Located(logs)
    /\ RunInit

NextReport ==
    \/ ReportSync \/ ReportTicks \/ ReportMarkers \/ ReportCorrelation
    \/ ReportChannel \/ ReportSubcarrier \/ ReportFooter

SpecReport == InitReport /\ [][NextReport]_vars

SpecFrame == InitFrame /\ [][NextReport]_vars

InitLocator ==
    /\ listing \in Listings
    /\ l_pos = 0 /\ k_pos = 0
    /\ candidates = [key \in KeySet |-> <<>>]
    /\ files = [key \in KeySet |-> NoPath]
    /\ CorrIdle
    /\ RepIdle

NextLocator == ListFile \/ PickKey

SpecLocator == InitLocator /\ [][NextLocator]_vars

InitMatcher ==
    /\ cpc = "start"
    /\ ticks_markers \in TickInputs
    /\ markers_markers \in MarkerInputs
    /\ tick_list = <<>> /\ marker_list = <<>>
    /\ t_pos = 0 /\ used_markers = {} /\ correlated = 0 /\ tick_only = 0
    /\ marker_only = 0 /\ displayed = 0 /\ pairs = <<>>
    /\ LocIdle
    /\ RepIdle

NextMatcher == CorrelationStart \/ MatchTick \/ CorrelationSummary

SpecMatcher == InitMatcher /\ [][NextMatcher]_vars

\* ======================================================================
\* Log Locator claim (SpecLocator)
\* ======================================================================
\* the categories whose substring occurs in a file name
Matching(f) == {k \in 1..Len(Keys) : Contains(f, KeyChars(Keys[k]))}

\* the one category of a file: the first matching one, "" for a file that is
\* not a .csv or matches none
CategoryOf(f) ==
    LET m == Matching(f)
    IN  IF ~EndsWith(f, DotCsv) \/ m = {} THEN ""
        ELSE Keys[CHOOSE k \in m : \A k2 \in m : k <= k2]

\* CategoryOf over the modelled names
CategoryTable == [f \in FileNames |-> CategoryOf(f)]

\* the newest of a non-empty set of directory entries, the greatest path
\* among those of equal mtime
Newest(C) ==
    CHOOSE e \in C :
        \A e2 \in C :
            \/ e2 = e
            \/ e2.mtime < e.mtime
            \/ (e2.mtime = e.mtime /\ StrLess(FullPath(e2.name), FullPath(e.name)))

\* C9: every listed .csv file is a candidate of exactly one category, the
\* first in the order sync, ticks, markers, subcarrier, channel whose substring
\* its name contains; once a category is picked its file is the candidate of
\* latest mtime, the lexicographically greatest path among equal mtimes, which
\* depends on the directory's content only, and None without candidates.
C9_LocatorSelection ==
    LET cat == [i \in 1..Len(listing) |-> CategoryTable[listing[i].name]]
        \* the directory as a set: what every enumeration order has in common
        InCat(key) == {listing[i] : i \in {i \in 1..Len(listing) : cat[i] = key}}
        Seen(key) == {listing[i] : i \in {i \in 1..l_pos : cat[i] = key}}
    IN  /\ \A key \in KeySet :
              /\ Range(candidates[key]) = {<<e.mtime, FullPath(e.name)>> : e \in Seen(key)}
              /\ Len(candidates[key]) = Cardinality(Seen(key))
        /\ \A k \in 1..Len(Keys) :
              files[Keys[k]] =
                 IF k <= k_pos /\ InCat(Keys[k]) # {}
                 THEN FullPath(Newest(InCat(Keys[k])).name)
                 ELSE NoPath

\* all categories are picked; one had two candidates of equal mtime, listed
\* in ascending path order, and a file with two category substrings was listed
C9_Witness ==
    /\ k_pos = Len(Keys)
    /\ \E key \in KeySet : \E i, j \in 1..Len(listing) :
          /\ i < j
          /\ CategoryOf(listing[i].name) = key /\ CategoryOf(listing[j].name) = key
          /\ listing[i].mtime = listing[j].mtime
          /\ StrLess(listing[i].name, listing[j].name)
          /\ files[key] = FullPath(listing[j].name)
    /\ \E e \in Range(listing) :
          Cardinality(Matching(e.name)) >= 2 /\ EndsWith(e.name, DotCsv)

\* ======================================================================
\* Correlation Matcher claims (SpecMatcher)
\* ======================================================================
PairedTicks == {pairs[a][1] : a \in 1..Len(pairs)}
PairedMarkers == {pairs[a][2] : a \in 1..Len(pairs)}
TimeDelta(k, j) == Abs(tick_list[k][2] - marker_list[j][2])

\* C1: at every step of the matching loop and at its end, every marker
\* (a position of the sorted marker list) is in at most one recorded pair and
\* every tick-marker is in at most one recorded pair.
C1_ExclusivePairing ==
    /\ \A a, b \in 1..Len(pairs) :
          a # b => (pairs[a][1] # pairs[b][1] /\ pairs[a][2] # pairs[b][2])
    /\ used_markers = PairedMarkers
    /\ PairedTicks \subseteq 1..t_pos
    /\ PairedMarkers \subseteq 1..Len(marker_list)

\* the loop has ended with two pairs made among markers that share a timestamp
C1_Witness ==
    /\ cpc = "done"
    /\ Len(pairs) >= 2
    /\ \E i, j \in 1..Len(marker_list) :
          i # j /\ marker_list[i][2] = marker_list[j][2] /\ {i, j} \subseteq PairedMarkers

\* C2: after all tick-markers are processed, matched + tick-only is the number
\* of tick-markers and matched + marker-only is the number of markers.
C2_Accounting ==
    cpc = "done" =>
        /\ correlated + tick_only = Len(ticks_markers)
        /\ correlated + marker_only = Len(markers_markers)

\* all three counters are non-zero at the end
C2_Witness ==
    cpc = "done" /\ correlated >= 1 /\ tick_only >= 1 /\ marker_only >= 1

\* C3: every recorded pair has |delta| < 1500; a processed tick-marker whose
\* closest marker is 1500 ms or more away is in no pair, and the tick-only
\* count is the number of processed tick-markers that are in no pair.
C3_WindowStrict ==
    /\ \A a \in 1..Len(pairs) :
          /\ pairs[a][3] = TimeDelta(pairs[a][1], pairs[a][2])
          /\ pairs[a][3] < Window
    /\ \A k \in 1..t_pos :
          (\A j \in 1..Len(marker_list) : TimeDelta(k, j) >= Window) => k \notin PairedTicks
    /\ tick_only = Cardinality((1..t_pos) \ PairedTicks)

\* a processed tick-marker whose closest marker is exactly 1500 ms away
C3_Witness ==
    /\ cpc = "done"
    /\ \E k \in 1..t_pos :
          /\ \A j \in 1..Len(marker_list) : TimeDelta(k, j) >= Window
          /\ \E j \in 1..Len(marker_list) : TimeDelta(k, j) = Window
          /\ k \notin PairedTicks
          /\ tick_only >= 1

\* The reference greedy procedure: for the k-th tick-marker, among the unused
\* markers closer than the window, the one of least delta, the first in list
\* order among equals; 0 when there is none.
RefChoice(tl, ml, used, k) ==
    LET d(j) == Abs(tl[k][2] - ml[j][2])
        cands == {j \in (1..Len(ml)) \ used : d(j) < Window}
    IN  IF cands = {} THEN 0
        ELSE CHOOSE j \in cands :
                \A j2 \in cands : d(j) < d(j2) \/ (d(j) = d(j2) /\ j <= j2)

RECURSIVE RefPairs(_, _, _)
RefPairs(tl, ml, n) ==
    IF n = 0 THEN <<>>
    ELSE LET before == RefPairs(tl, ml, n - 1)
             used == {before[a][2] : a \in 1..Len(before)}
             j == RefChoice(tl, ml, used, n)
         IN  IF j = 0 THEN before
             ELSE Append(before, <<n, j, Abs(tl[n][2] - ml[j][2])>>)

IsAscending(s) == \A i, j \in 1..Len(s) : i < j => s[i][2] <= s[j][2]
IsPermutation(s, t) == Len(s) = Len(t) /\ Range(s) = Range(t)

\* C4: both lists are processed in ascending timestamp order and the pairing
\* made so far is the one the reference greedy procedure makes.
C4_GreedyReference ==
    cpc \in {"loop", "done"} =>
        /\ IsAscending(tick_list) /\ IsPermutation(tick_list, ticks_markers)
        /\ IsAscending(marker_list) /\ IsPermutation(marker_list, markers_markers)
        /\ pairs = RefPairs(tick_list, marker_list, t_pos)

\* the inputs were out of order, and a tick-marker was paired while a later
\* unused marker on the other side of it had the same delta
C4_Witness ==
    /\ cpc = "done"
    /\ tick_list # ticks_markers
    /\ marker_list # markers_markers
    /\ \E a \in 1..Len(pairs) : \E j \in 1..Len(marker_list) :
          /\ j > pairs[a][2]
          /\ j \notin {pairs[b][2] : b \in 1..(a - 1)}
          /\ TimeDelta(pairs[a][1], j) = pairs[a][3]
          /\ marker_list[j][2] # marker_list[pairs[a][2]][2]

\* the tick-markers counted as tick-only and the markers counted as marker-only
TickOnlySet == (1..Len(tick_list)) \ PairedTicks
MarkerOnlySet == (1..Len(marker_list)) \ used_markers

\* C11: after all tick-markers are processed, no tick-marker counted as
\* tick-only and marker counted as marker-only are less than 1500 ms apart:
\* no further in-window pair can be added to the pairing.
C11_MaximalMatching ==
    cpc = "done" =>
        /\ tick_only = Cardinality(TickOnlySet)
        /\ marker_only = Cardinality(MarkerOnlySet)
        /\ \A k \in TickOnlySet : \A j \in MarkerOnlySet : TimeDelta(k, j) >= Window

\* the loop has ended with a tick-only tick-marker and a marker-only marker
\* left over although pairing them with the partners of a pair that was made
\* would have given one pair more: the pairing is maximal, not maximum
C11_Witness ==
    /\ cpc = "done"
    /\ \E k \in TickOnlySet : \E j \in MarkerOnlySet : \E a \in 1..Len(pairs) :
          /\ TimeDelta(k, pairs[a][2]) < Window
          /\ TimeDelta(pairs[a][1], j) < Window

\* ======================================================================
\* Report claims (SpecReport, SpecFrame)
\* ======================================================================
Terminal == rpc \in {"done", "aborted"}

SectionNames(o) == {o[i].name : i \in 1..Len(o)}
PositionOf(o, name) == CHOOSE i \in 1..Len(o) : o[i].name = name
LinesOf(o, name) == o[PositionOf(o, name)].lines

\* the section each category's analyzer feeds
SectionOfKey(key) ==
    CASE key = "sync" -> "SYNC"
      [] key = "ticks" -> "TICK"
      [] key = "markers" -> "MARKER"
      [] key = "subcarrier" -> "SUBCARRIER"
      [] key = "channel" -> "CHANNEL"

ReportSections == {"SYNC", "TICK", "MARKER", "CORRELATION", "CHANNEL", "SUBCARRIER"}

\* the run of the same directory without the file of one category
RunWithout(key) ==
    RunFrom([files EXCEPT ![key] = NoPath], [logs EXCEPT ![key] = Absent], RunStart)

HasSyncLine(lines) == \E i \in 1..Len(lines) : lines[i][1] = "Sync confirmed"
WithoutSyncLine(lines) == SelectSeq(lines, LAMBDA l : l[1] # "Sync confirmed")

NoMalformedRow ==
    /\ \A i \in 1..Len(logs.sync.rows) :
          ParseFloat(logs.sync.rows[i].interval_sec).ok /\ ParseFloat(logs.sync.rows[i].delta_ms).ok
    /\ \A i \in 1..Len(logs.ticks.rows) :
          /\ ParseFloat(logs.ticks.rows[i].interval_ms).ok
          /\ ParseFloat(logs.ticks.rows[i].timestamp_ms).ok
          /\ ParseFloat(logs.ticks.rows[i].duration_ms).ok
    /\ \A i \in 1..Len(logs.markers.rows) :
          /\ ParseFloat(logs.markers.rows[i].timestamp_ms).ok
          /\ ParseFloat(logs.markers.rows[i].duration_ms).ok
    /\ \A i \in 1..Len(logs.channel.rows) : ParseFloat(logs.channel.rows[i].snr_db).ok

IsSentinel(row) == row.tick_num = MetaChars \/ row.tick_num = GainChars
BeginsWithM(id) == id # <<>> /\ id[1] = "M"

\* the tick rows and minute-marker rows of the tick log as the claims define them
ClaimedTicks == SelectSeq(logs.ticks.rows, LAMBDA row : ~IsSentinel(row) /\ ~BeginsWithM(row.tick_num))
ClaimedMinuteMarkers ==
    SelectSeq(logs.ticks.rows, LAMBDA row : ~IsSentinel(row) /\ BeginsWithM(row.tick_num))

\* a sync log without rows, or a tick log without tick rows
EmptyAggregate ==
    \/ logs.sync.exists /\ logs.sync.rows = <<>>
    \/ logs.ticks.exists /\ ClaimedTicks = <<>>

\* C6: with a sync log of zero rows or a tick log of zero tick rows (and no
\* malformed row anywhere), the run is never aborted, and it ends with the
\* closing separator printed.
C6_EmptyNeverFatal ==
    (EmptyAggregate /\ NoMalformedRow) =>
        /\ rpc # "aborted"
        /\ rpc = "done" => out[Len(out)].name = "END"

\* C7: with a row whose numeric field is not a number (and no empty
\* aggregate), the run is never aborted, and the sync count of a finished run
\* is the number of well-formed sync rows.
C7_MalformedDropped ==
    (~NoMalformedRow /\ ~EmptyAggregate) =>
        /\ rpc # "aborted"
        /\ (rpc = "done" /\ Truthy(sync)) =>
              sync.count = Len(SelectSeq(logs.sync.rows, LAMBDA row :
                                  ParseFloat(row.interval_sec).ok /\ ParseFloat(row.delta_ms).ok))

\* C8: once the Tick Analyzer has returned (in a run not aborted), its tick count is the number of
\* rows that are neither sentinels nor "M"-prefixed and its marker count the
\* number of "M"-prefixed rows that are not sentinels: META and GAIN rows
\* change neither.
C8_SentinelsIgnored ==
    (Truthy(ticks) /\ rpc # "aborted") =>
        /\ ticks.tick_count = Len(ClaimedTicks)
        /\ ticks.marker_count = Len(ClaimedMinuteMarkers)

\* C10: the Tick Analyzer's marker list has as many entries as its marker
\* count; and (no row being malformed and the sync log not being empty) a run
\* that has ended printed the Correlation section, after the Marker section and
\* before the Channel section, exactly when the tick log and the marker log
\* both exist and each has an "M"-prefixed row.
C10_CorrelationEmitted ==
    /\ Truthy(ticks) => Len(ticks.markers) = ticks.marker_count
    /\ (Terminal /\ NoMalformedRow /\ ~(logs.sync.exists /\ logs.sync.rows = <<>>)) =>
          /\ "CORRELATION" \in SectionNames(out)
                <=> /\ logs.ticks.exists /\ logs.markers.exists
                    /\ \E i \in 1..Len(logs.ticks.rows) : BeginsWithM(logs.ticks.rows[i].tick_num)
                    /\ \E i \in 1..Len(logs.markers.rows) :
                          BeginsWithM(logs.markers.rows[i].marker_num)
          /\ "CORRELATION" \in SectionNames(out) =>
                /\ PositionOf(out, "MARKER") < PositionOf(out, "CORRELATION")
                /\ "CHANNEL" \in SectionNames(out) =>
                      PositionOf(out, "CORRELATION") < PositionOf(out, "CHANNEL")

====
